---- MODULE Spec2Model ----
(***************************************************************************)
(* OrganiseDataset (solution_organise_dataset.py): grouping of the .png    *)
(* files of a folder by camera prefix, the per-camera scan that marks      *)
(* frames non-essential, and the removal pass that deletes them and prints *)
(* the per-camera report.                                                  *)
(*                                                                         *)
(* File names are sequences of one-character strings, so that sorted(),    *)
(* split(), startswith(), endswith() and "in" are computed character by    *)
(* character as Python computes them.  List indices are 0-based as in the  *)
(* program: index i names Image_files[i + 1] of the TLA+ sequence.         *)
(***************************************************************************)
EXTENDS Integers, Sequences, FiniteSets, TLC

\* Largest number of directory entries in the folder.
MaxFiles == 4

\* min_score, the default the entry point runs with.
MinScore == 25000

---------------------------------------------------------------------------
\* Python str: ordering and the string methods the program calls.

\* The characters of the file names, in code-point order.
Alphabet == <<"-", ".", "1", "2", "3", "4", "_", "a", "b", "g", "n", "p", "t", "x">>

Ord(c) == CHOOSE i \in 1..Len(Alphabet) : Alphabet[i] = c

\* s < t on str: the first differing character decides; a proper prefix is smaller.
StrLess(s, t) ==
    \E k \in 1..(Len(t)) :
        /\ k <= Len(s) + 1
        /\ \A j \in 1..(k - 1) : s[j] = t[j]
        /\ \/ k = Len(s) + 1
           \/ k <= Len(s) /\ Ord(s[k]) < Ord(t[k])

\* sorted(S) for a collection of distinct strings.
RECURSIVE Sorted(_)
Sorted(S) ==
    IF S = {} THEN <<>>
    ELSE LET m == CHOOSE x \in S : \A y \in S \ {x} : StrLess(x, y)
         IN  <<m>> \o Sorted(S \ {m})

\* c in s, for a one-character c.
Contains(s, c) == \E i \in 1..Len(s) : s[i] = c

\* s.split(c)[0]: everything before the first c (all of s when c is absent).
SplitFirst(s, c) ==
    IF Contains(s, c)
    THEN LET k == CHOOSE i \in 1..Len(s) :
                      s[i] = c /\ \A j \in 1..(i - 1) : s[j] # c
         IN  SubSeq(s, 1, k - 1)
    ELSE s

\* s.startswith(p)
StartsWith(s, p) == Len(p) <= Len(s) /\ SubSeq(s, 1, Len(p)) = p

\* s.endswith(p)
EndsWith(s, p) == Len(p) <= Len(s) /\ SubSeq(s, Len(s) - Len(p) + 1, Len(s)) = p

Png == <<".", "p", "n", "g">>

---------------------------------------------------------------------------
\* The folders the runs start from.

\* Directory entries a folder may hold: camera a (one frame), camera ab (its
\* prefix extends a's), a name with no separator, a name with both separators,
\* camera b (three frames, "_" separator) and an entry that is no .png.
Names ==
    { <<"a", "-", "1", ".", "p", "n", "g">>,
      <<"a", "b", "-", "1", ".", "p", "n", "g">>,
      <<"a", "b", ".", "p", "n", "g">>,
      <<"a", "_", "b", "-", "1", ".", "p", "n", "g">>,
      <<"b", "_", "1", ".", "p", "n", "g">>,
      <<"b", "_", "2", ".", "p", "n", "g">>,
      <<"b", "_", "3", ".", "p", "n", "g">>,
      <<"b", "_", "4", ".", "t", "x", "t">> }

\* What cv2.imread returns for a file that does not decode.
None == [readable |-> FALSE, val |-> 0, shape |-> "none"]

\* Decodable images: a content value the comparator scores on, and a shape.
Images ==
    { [readable |-> TRUE, val |-> 0,            shape |-> "s1"],
      [readable |-> TRUE, val |-> MinScore - 1, shape |-> "s1"],
      [readable |-> TRUE, val |-> MinScore,     shape |-> "s2"] }

\* prev_frame before any assignment to it.
Unbound == [bound |-> FALSE, src |-> -1, val |-> 0, shape |-> "none"]

---------------------------------------------------------------------------
\* The frame comparator (imaging_interview), by its contract.

\* preprocess_image_change_detection: the representation of a decoded image.
\* It keeps the image's dimensions; src records which index it came from.
Preprocess(read_image, img_index) ==
    [bound |-> TRUE, src |-> img_index, val |-> read_image.val, shape |-> read_image.shape]

\* cv2.resize(prev_frame, shape of next_frame)
Resize(frame, shape) == [frame EXCEPT !.shape = shape]

\* compare_frames_change_detection: a non-negative score of two representations
\* of one shape, larger for more change.
Score(prev, next) ==
    IF prev.val >= next.val THEN prev.val - next.val ELSE next.val - prev.val

---------------------------------------------------------------------------
\* get_camera_id_indices

\* The .png entries of the listing, sorted.
ImageFilesOf(listing) == Sorted({f \in listing : EndsWith(f, Png)})

\* The two branches in the other order: "_" tested before "-".
CameraIdsOfUnderscoreFirst(files) ==
    { SplitFirst(files[i], "_") : i \in {j \in 1..Len(files) : Contains(files[j], "_")} }
    \cup
    { SplitFirst(files[i], "-") :
        i \in {j \in 1..Len(files) : ~Contains(files[j], "_") /\ Contains(files[j], "-")} }

\* The prefixes collected by the "-" / "_" branches.
CameraIdsOf(files) ==
    { SplitFirst(files[i], "-") : i \in {j \in 1..Len(files) : Contains(files[j], "-")} }
    \cup
    { SplitFirst(files[i], "_") :
        i \in {j \in 1..Len(files) : ~Contains(files[j], "-") /\ Contains(files[j], "_")} }

\* The index list built for one camera id.
IndicesOf(ids, files) ==
    SelectSeq([i \in 1..Len(files) |-> i - 1],
              LAMBDA index : StartsWith(files[index + 1], ids))

\* The dictionary, as the sequence of its items in insertion order.
CameraIdIndicesOf(files) ==
    LET cams == Sorted(CameraIdsOf(files))
    IN  [k \in 1..Len(cams) |-> [id |-> cams[k], indices |-> IndicesOf(cams[k], files)]]

---------------------------------------------------------------------------
\* The body of the inner loop of remove_duplicates, branch by branch.  Each
\* yields the locals after the iteration; op names the branch taken and ref is
\* the frame the comparator was given (the reference the iteration started
\* with, where it made no comparison).

\* A failed load drops the reference.
UnreadableBranchReset(prev, rem, img_index) ==
    [op |-> "unreadable", idx |-> img_index, prev |-> Unbound,
     rem |-> Append(rem, img_index), ref |-> prev, score |-> -1]

\* read_image is None: the index is marked, prev_frame is not assigned.
UnreadableBranch(prev, rem, img_index) ==
    [op |-> "unreadable", idx |-> img_index, prev |-> prev,
     rem |-> Append(rem, img_index), ref |-> prev, score |-> -1]

\* The first frame installed as the reference and marked as well.
FirstBranchMarking(prev, rem, img_index, read_image) ==
    [op |-> "first", idx |-> img_index, prev |-> Preprocess(read_image, img_index),
     rem |-> Append(rem, img_index), ref |-> prev, score |-> -1]

\* img_index == img_indices[0]: the frame becomes prev_frame.
FirstBranch(prev, rem, img_index, read_image) ==
    [op |-> "first", idx |-> img_index, prev |-> Preprocess(read_image, img_index),
     rem |-> rem, ref |-> prev, score |-> -1]

\* The comparison made inclusive.
BelowOrAtMinScore(score) == score <= MinScore

\* score < min_score
BelowMinScore(score) == score < MinScore

\* The else branch: resize on a shape mismatch, score, decide.  Reading
\* prev_frame before any assignment to it raises UnboundLocalError.
CompareBranch(prev, rem, img_index, read_image) ==
    IF ~prev.bound
    THEN [op |-> "unbound", idx |-> img_index, prev |-> prev,
          rem |-> rem, ref |-> prev, score |-> -1]
    ELSE LET next_frame == Preprocess(read_image, img_index)
             resized    == IF prev.shape # next_frame.shape
                           THEN Resize(prev, next_frame.shape)
                           ELSE prev
             score      == Score(resized, next_frame)
         IN  IF BelowMinScore(score)
             THEN [op |-> "removed", idx |-> img_index, prev |-> resized,
                   rem |-> Append(rem, img_index), ref |-> resized, score |-> score]
             ELSE [op |-> "kept", idx |-> img_index, prev |-> next_frame,
                   rem |-> rem, ref |-> resized, score |-> score]

\* One iteration on the frame read_image at img_index, first_index being
\* img_indices[0].
LoopBody(prev, rem, img_index, first_index, read_image) ==
    IF read_image = None THEN UnreadableBranch(prev, rem, img_index)
    ELSE IF img_index = first_index THEN FirstBranch(prev, rem, img_index, read_image)
    ELSE CompareBranch(prev, rem, img_index, read_image)

---------------------------------------------------------------------------
VARIABLES
    exists,             \* os.path.exists(folder_path)
    content,            \* what each entry of the folder decodes to (fixed for a run)
    disk,               \* the entries now in the folder
    pc,                 \* "start", "scan", "remove", "done", "error"
    err,                \* the exception that ended the run, "" if none
    Image_files,        \* the sorted .png names
    camera_id_indices,  \* the grouping
    ci,                 \* position of the outer loop of remove_duplicates
    fi,                 \* position of its inner loop
    prev_frame,         \* the local prev_frame
    remove_indices,     \* the local remove_indices
    non_essential_data, \* items in insertion order
    ri,                 \* position of the outer loop of remove_ids
    rj,                 \* position of its inner loop
    count,              \* the local count of remove_ids
    report,             \* the lines printed
    deleted,            \* the names passed to os.remove that were removed, in order
    last                \* the branch the latest inner-loop iteration took

vars == <<exists, content, disk, pc, err, Image_files, camera_id_indices, ci, fi,
          prev_frame, remove_indices, non_essential_data, ri, rj, count, report,
          deleted, last>>

NoStep == [op |-> "none", cam |-> 0, idx |-> -1, ref |-> Unbound, score |-> -1]

\* The contents a folder entry may have: a .png decodes or does not, any other
\* entry is never an image.
ContentsOf(f) == IF EndsWith(f, Png) THEN Images \cup {None} ELSE {None}

Folders ==
    UNION { { c \in [S -> Images \cup {None}] : \A f \in S : c[f] \in ContentsOf(f) } :
            S \in {T \in SUBSET Names : Cardinality(T) <= MaxFiles} }

\* A folder of prefix-sharing names: "a" is an initial substring of "ab", and
\* camera "ab" has three files, all of them also in camera "a"'s index list.
OverlapNames ==
    { <<"a", "-", "1", ".", "p", "n", "g">>,
      <<"a", "b", "-", "1", ".", "p", "n", "g">>,
      <<"a", "b", ".", "p", "n", "g">>,
      <<"a", "b", "_", "2", ".", "p", "n", "g">> }

\* One more image, just under MinScore away from MinScore.
OverlapImages ==
    Images \cup { [readable |-> TRUE, val |-> 2 * MinScore - 1, shape |-> "s1"] }

OverlapFolders ==
    UNION { [S -> OverlapImages \cup {None}] :
            S \in {T \in SUBSET OverlapNames : Cardinality(T) <= MaxFiles} }

\* The state when remove_duplicates is called on the folder.
Constructed ==
    /\ exists = FALSE => DOMAIN content = {}
    /\ disk = DOMAIN content
    /\ pc = "start"
    /\ err = ""
    /\ Image_files = <<>>
    /\ camera_id_indices = <<>>
    /\ ci = 1
    /\ fi = 1
    /\ prev_frame = Unbound
    /\ remove_indices = <<>>
    /\ non_essential_data = <<>>
    /\ ri = 1
    /\ rj = 1
    /\ count = 0
    /\ report = <<>>
    /\ deleted = <<>>
    /\ last = NoStep

Init ==
    /\ exists \in BOOLEAN
    /\ content \in Folders
    /\ Constructed

\* The same program started on a folder of prefix-sharing names.
InitOverlap ==
    /\ exists \in BOOLEAN
    /\ content \in OverlapFolders
    /\ Constructed

---------------------------------------------------------------------------
\* remove_duplicates, up to the end of the decision loop.

\* The existence test left out: the grouping goes on without the folder.
GroupUnchecked ==
    /\ pc = "start"
    /\ ~exists
    /\ Image_files' = ImageFilesOf(disk)
    /\ camera_id_indices' = CameraIdIndicesOf(Image_files')
    /\ pc' = "scan"
    /\ UNCHANGED <<exists, content, disk, err, ci, fi, prev_frame, remove_indices,
                   non_essential_data, ri, rj, count, report, deleted, last>>

\* The call of get_camera_id_indices on a path that does not exist.
GroupNotFound ==
    /\ pc = "start"
    /\ ~exists
    /\ pc' = "error"
    /\ err' = "FileNotFoundError"
    /\ UNCHANGED <<exists, content, disk, Image_files, camera_id_indices, ci, fi,
                   prev_frame, remove_indices, non_essential_data, ri, rj, count,
                   report, deleted, last>>

\* The call of get_camera_id_indices, and non_essential_data = dict().
Group ==
    /\ pc = "start"
    /\ exists
    /\ Image_files' = ImageFilesOf(disk)
    /\ camera_id_indices' = CameraIdIndicesOf(Image_files')
    /\ non_essential_data' = <<>>
    /\ ci' = 1
    /\ fi' = 1
    /\ remove_indices' = <<>>
    /\ pc' = "scan"
    /\ UNCHANGED <<exists, content, disk, err, prev_frame, ri, rj, count, report,
                   deleted, last>>

\* The camera and the frame the decision loop stands at.
InScan == pc = "scan" /\ ci <= Len(camera_id_indices)
img_indices == camera_id_indices[ci].indices
AtFrame == InScan /\ fi <= Len(img_indices)

\* cv2.imread of the file at an index: None when it does not decode or is gone.
Imread(img_index) ==
    LET f == Image_files[img_index + 1]
    IN  IF f \in disk THEN content[f] ELSE None

\* What the iteration at the current frame does.
Iteration ==
    LoopBody(prev_frame, remove_indices, img_indices[fi], img_indices[1],
             Imread(img_indices[fi]))

\* The iteration's effect on the locals.
Iterate(op) ==
    /\ AtFrame
    /\ Iteration.op = op
    /\ prev_frame' = Iteration.prev
    /\ remove_indices' = Iteration.rem
    /\ last' = [op |-> op, cam |-> ci, idx |-> Iteration.idx, ref |-> Iteration.ref,
                score |-> Iteration.score]
    /\ UNCHANGED <<exists, content, Image_files, camera_id_indices, ci,
                   non_essential_data, ri, rj, count, report>>

\* The unreadable frame deleted as soon as it is marked.
ScanUnreadableDeleting ==
    /\ Iterate("unreadable")
    /\ fi' = fi + 1
    /\ disk' = disk \ {Image_files[img_indices[fi] + 1]}
    /\ deleted' = Append(deleted, Image_files[img_indices[fi] + 1])
    /\ UNCHANGED <<pc, err>>

\* read_image is None: the index is marked and the loop continues.
ScanUnreadable ==
    /\ Iterate("unreadable")
    /\ fi' = fi + 1
    /\ UNCHANGED <<pc, err, disk, deleted>>

\* The frame at img_indices[0] becomes prev_frame.
ScanFirst ==
    /\ Iterate("first")
    /\ fi' = fi + 1
    /\ UNCHANGED <<pc, err, disk, deleted>>

\* The frame scores below min_score and is marked.
ScanRemove ==
    /\ Iterate("removed")
    /\ fi' = fi + 1
    /\ UNCHANGED <<pc, err, disk, deleted>>

\* The frame scores at least min_score and becomes prev_frame.
ScanKeep ==
    /\ Iterate("kept")
    /\ fi' = fi + 1
    /\ UNCHANGED <<pc, err, disk, deleted>>

\* The else branch reads prev_frame before any assignment to it.
ScanUnbound ==
    /\ Iterate("unbound")
    /\ pc' = "error"
    /\ err' = "UnboundLocalError"
    /\ UNCHANGED <<fi, disk, deleted>>

\* non_essential_data[camera_id] = remove_indices, and the next camera.
EndCamera ==
    /\ InScan
    /\ fi > Len(img_indices)
    /\ non_essential_data' =
           Append(non_essential_data,
                  [id |-> camera_id_indices[ci].id, indices |-> remove_indices])
    /\ ci' = ci + 1
    /\ fi' = 1
    /\ remove_indices' = <<>>
    /\ UNCHANGED <<exists, content, disk, pc, err, Image_files, camera_id_indices,
                   prev_frame, ri, rj, count, report, deleted, last>>

\* After the loop: remove_ids is called when non_essential_data is not empty.
CallRemoveIds ==
    /\ pc = "scan"
    /\ ci > Len(camera_id_indices)
    /\ non_essential_data # <<>>
    /\ pc' = "remove"
    /\ ri' = 1
    /\ rj' = 1
    /\ count' = 0
    /\ UNCHANGED <<exists, content, disk, err, Image_files, camera_id_indices, ci, fi,
                   prev_frame, remove_indices, non_essential_data, report, deleted, last>>

\* After the loop, with no camera at all: pass.
SkipRemoval ==
    /\ pc = "scan"
    /\ ci > Len(camera_id_indices)
    /\ non_essential_data = <<>>
    /\ pc' = "done"
    /\ UNCHANGED <<exists, content, disk, err, Image_files, camera_id_indices, ci, fi,
                   prev_frame, remove_indices, non_essential_data, ri, rj, count,
                   report, deleted, last>>

---------------------------------------------------------------------------
\* remove_ids

InRemove == pc = "remove" /\ ri <= Len(non_essential_data)
AtRemoval == InRemove /\ rj <= Len(non_essential_data[ri].indices)
RemovalFile == Image_files[non_essential_data[ri].indices[rj] + 1]

\* os.remove succeeds and the count goes up.
DeleteOk ==
    /\ AtRemoval
    /\ RemovalFile \in disk
    /\ disk' = disk \ {RemovalFile}
    /\ deleted' = Append(deleted, RemovalFile)
    /\ count' = count + 1
    /\ rj' = rj + 1
    /\ UNCHANGED <<exists, content, pc, err, Image_files, camera_id_indices, ci, fi,
                   prev_frame, remove_indices, non_essential_data, ri, report, last>>

\* The camera's line printed although os.remove raised.
DeleteFailReporting ==
    /\ AtRemoval
    /\ pc' = "error"
    /\ err' = "OSError"
    /\ report' = Append(report, [id |-> non_essential_data[ri].id, count |-> count])
    /\ UNCHANGED <<exists, content, disk, Image_files, camera_id_indices, ci, fi,
                   prev_frame, remove_indices, non_essential_data, ri, rj, count,
                   deleted, last>>

\* The exception swallowed: the pass goes on to the next index.
DeleteFailSkipping ==
    /\ AtRemoval
    /\ err' = "OSError"
    /\ rj' = rj + 1
    /\ UNCHANGED <<exists, content, disk, pc, Image_files, camera_id_indices, ci, fi,
                   prev_frame, remove_indices, non_essential_data, ri, count,
                   report, deleted, last>>

\* os.remove raises: the file is gone, or the system refuses the removal.
DeleteFail ==
    /\ AtRemoval
    /\ pc' = "error"
    /\ err' = "OSError"
    /\ UNCHANGED <<exists, content, disk, Image_files, camera_id_indices, ci, fi,
                   prev_frame, remove_indices, non_essential_data, ri, rj, count,
                   report, deleted, last>>

\* The camera's line is printed and the next camera starts with count = 0.
PrintReport ==
    /\ InRemove
    /\ rj > Len(non_essential_data[ri].indices)
    /\ report' = Append(report, [id |-> non_essential_data[ri].id, count |-> count])
    /\ ri' = ri + 1
    /\ rj' = 1
    /\ count' = 0
    /\ UNCHANGED <<exists, content, disk, pc, err, Image_files, camera_id_indices, ci,
                   fi, prev_frame, remove_indices, non_essential_data, deleted, last>>

\* remove_ids and remove_duplicates return.
Return ==
    /\ pc = "remove"
    /\ ri > Len(non_essential_data)
    /\ pc' = "done"
    /\ UNCHANGED <<exists, content, disk, err, Image_files, camera_id_indices, ci, fi,
                   prev_frame, remove_indices, non_essential_data, ri, rj, count,
                   report, deleted, last>>

Next ==
    \/ GroupNotFound
    \/ Group
    \/ ScanUnreadable
    \/ ScanFirst
    \/ ScanRemove
    \/ ScanKeep
    \/ ScanUnbound
    \/ EndCamera
    \/ CallRemoveIds
    \/ SkipRemoval
    \/ DeleteOk
    \/ DeleteFail
    \/ PrintReport
    \/ Return

Spec == Init /\ [][Next]_vars

SpecOverlap == InitOverlap /\ [][Next]_vars

---------------------------------------------------------------------------
\* The decision loop of remove_duplicates as a function of the folder's content:
\* the same loop body, folded over each camera's indices and over the cameras,
\* with prev_frame carried from one camera to the next as the local is.

RECURSIVE ScanList(_, _, _, _, _)
ScanList(cont, files, indices, k, acc) ==
    IF k > Len(indices) \/ acc.crashed THEN acc
    ELSE LET r == LoopBody(acc.prev, acc.rem, indices[k], indices[1],
                           cont[files[indices[k] + 1]])
         IN  ScanList(cont, files, indices, k + 1,
                      [prev |-> r.prev, rem |-> r.rem, crashed |-> r.op = "unbound"])

RECURSIVE DecideFrom(_, _, _, _, _, _)
DecideFrom(cont, files, cams, c, prev, data) ==
    IF c > Len(cams) THEN [data |-> data, crashed |-> FALSE]
    ELSE LET r == ScanList(cont, files, cams[c].indices, 1,
                           [prev |-> prev, rem |-> <<>>, crashed |-> FALSE])
         IN  IF r.crashed THEN [data |-> data, crashed |-> TRUE]
             ELSE DecideFrom(cont, files, cams, c + 1, r.prev,
                             Append(data, [id |-> cams[c].id, indices |-> r.rem]))

DecisionLoop(cont) ==
    LET files == ImageFilesOf(DOMAIN cont)
    IN  DecideFrom(cont, files, CameraIdIndicesOf(files), 1, Unbound, <<>>)

\* The decision loop has run to its end for every camera.
Decided == pc \in {"scan", "remove", "done"} /\ ci > Len(camera_id_indices)

\* The stepwise loop and the folded loop compute the same removal lists.
DecisionLoopAgrees ==
    /\ Decided =>
           /\ ~DecisionLoop(content).crashed
           /\ DecisionLoop(content).data = non_essential_data
    /\ err = "UnboundLocalError" => DecisionLoop(content).crashed

---------------------------------------------------------------------------
\* Vocabulary of the properties.

Range(s) == {s[i] : i \in 1..Len(s)}

\* The name holds one of the two separators.
HasSeparator(f) == Contains(f, "-") \/ Contains(f, "_")

\* Everything before the first occurrence of a separator.
CameraPrefix(f) ==
    LET a == SplitFirst(f, "-")
        b == SplitFirst(f, "_")
    IN  IF Len(a) <= Len(b) THEN a ELSE b

\* get_camera_id_indices has returned.
Grouped == pc \in {"scan", "remove", "done"} \/ err \in {"UnboundLocalError", "OSError"}

\* The indices of the sorted file list.
AllIndices == {i - 1 : i \in 1..Len(Image_files)}

\* The file at an index decodes.
Readable(i) == content[Image_files[i + 1]] # None

\* The removal list of the camera at position k: stored once its scan has ended,
\* the list being built while it is scanned.
RemovedOf(k) ==
    IF k <= Len(non_essential_data) THEN non_essential_data[k].indices
    ELSE remove_indices

\* The cameras whose scan has started.
Started == {k \in 1..Len(camera_id_indices) : k <= ci}

\* The earliest readable index of a list of indices that has one.
EarliestReadable(indices) ==
    indices[CHOOSE p \in 1..Len(indices) :
                /\ Readable(indices[p])
                /\ \A q \in 1..(p - 1) : ~Readable(indices[q])]

HasReadable(indices) == \E p \in 1..Len(indices) : Readable(indices[p])

\* The latest iteration scored its frame against a reference.
Scored == last.op \in {"removed", "kept"}

---------------------------------------------------------------------------
\* C1: first-frame retention.  For every camera whose index list holds a
\* readable frame, the earliest readable frame is never put on the camera's
\* removal list, and the iteration that handles it installs it as prev_frame
\* (it takes the first-frame branch), wherever the unreadable frames before it
\* stand and whichever position the camera has in the iteration order.
FirstFrameRetention ==
    Grouped =>
        \A k \in Started :
            LET indices == camera_id_indices[k].indices
            IN  HasReadable(indices) =>
                    LET e == EarliestReadable(indices)
                    IN  /\ e \notin Range(RemovedOf(k))
                        /\ (last.cam = k /\ last.idx = e) =>
                               /\ last.op = "first"
                               /\ prev_frame =
                                      Preprocess(content[Image_files[e + 1]], e)

\* C2: grouping partition.  When every .png name holds a separator, every index
\* of the sorted file list is in exactly one camera's index list, once, and the
\* lists hold nothing but the indices 0..n-1.
GroupingPartition ==
    (Grouped /\ \A i \in AllIndices : HasSeparator(Image_files[i + 1])) =>
        /\ \A i \in AllIndices :
               Cardinality({k \in 1..Len(camera_id_indices) :
                                i \in Range(camera_id_indices[k].indices)}) = 1
        /\ \A k \in 1..Len(camera_id_indices) :
               LET indices == camera_id_indices[k].indices
               IN  /\ Range(indices) \subseteq AllIndices
                   /\ Cardinality(Range(indices)) = Len(indices)

\* C10: files without a separator are excluded.  A .png whose name holds
\* neither "-" nor "_" is in no camera's index list, is never the frame of a
\* loop iteration and is never deleted.
SeparatorlessExcluded ==
    Grouped =>
        \A i \in AllIndices :
            ~HasSeparator(Image_files[i + 1]) =>
                /\ \A k \in 1..Len(camera_id_indices) :
                       i \notin Range(camera_id_indices[k].indices)
                /\ last.idx # i
                /\ Image_files[i + 1] \in disk

---------------------------------------------------------------------------
\* The indices of files that the grouping gives to another camera than the one
\* at position k, and not to it.
OtherCameraIndices(k) ==
    { i \in AllIndices :
        /\ i \notin Range(camera_id_indices[k].indices)
        /\ \E j \in 1..Len(camera_id_indices) :
               i \in Range(camera_id_indices[j].indices) }

\* The folders that agree with this run's folder on every file but one, a file
\* of another camera than the one at position k, which decodes differently.
OtherCameraVariants(k) ==
    { [content EXCEPT ![Image_files[t[1] + 1]] = t[2]] :
        t \in { u \in OtherCameraIndices(k) \X (Images \cup {None}) :
                  u[2] # content[Image_files[u[1] + 1]] } }

\* The removal list a completed decision loop stored for the camera named x.
RemovalListOf(data, x) ==
    data[CHOOSE k \in 1..Len(data) : data[k].id = x].indices

\* C3: no cross-camera interference.  A run of the decision loop on a folder
\* that differs from this run's folder only in a file of another camera
\* computes the same removal list for camera X as this run did.
NoCrossCameraInterference ==
    (pc = "scan" /\ Decided) =>
        \A k \in 1..Len(non_essential_data) :
            \A alt \in OtherCameraVariants(k) :
                LET other == DecisionLoop(alt)
                IN  ~other.crashed =>
                        RemovalListOf(other.data, non_essential_data[k].id)
                            = non_essential_data[k].indices

---------------------------------------------------------------------------
\* The frames of the camera at position k that were retained before index i:
\* readable, handled, and not on the camera's removal list.
RetainedBefore(k, i) ==
    { j \in Range(camera_id_indices[k].indices) :
        j < i /\ Readable(j) /\ j \notin Range(RemovedOf(k)) }

SetMax(S) == CHOOSE m \in S : \A n \in S : n <= m

\* The representation of the frame at an index.
FrameAt(i) == Preprocess(content[Image_files[i + 1]], i)

\* C4: anchor on the last retained frame.  Every readable frame after the
\* first readable one of its camera is scored against the most recent frame of
\* that same camera that was retained, and the reference moves to another frame
\* only when a frame is retained.  With score(A,B) < min_score and
\* score(A,C) >= min_score this makes B marked, C scored against A and kept.
AnchorOnLastRetained ==
    /\ Scored =>
           LET k == last.cam
           IN  last.idx # EarliestReadable(camera_id_indices[k].indices) =>
                   /\ RetainedBefore(k, last.idx) # {}
                   /\ last.ref.src = SetMax(RetainedBefore(k, last.idx))
    /\ last.op \in {"removed", "unreadable"} => prev_frame.src = last.ref.src
    /\ last.op \in {"kept", "first"} => prev_frame.src = last.idx

\* C5: threshold boundary.  A scored frame is marked non-essential exactly when
\* its score is below min_score.  A score equal to min_score keeps the frame and
\* makes it the reference; a score of min_score - 1 marks it and leaves the
\* reference the frame it was scored against.
ThresholdBoundary ==
    Scored =>
        LET score == Score(last.ref, FrameAt(last.idx))
        IN  /\ last.score = score
            /\ score < MinScore <=> last.idx \in Range(RemovedOf(last.cam))
            /\ score < MinScore => prev_frame = last.ref
            /\ score >= MinScore => prev_frame = FrameAt(last.idx)

\* Frames A, B, C of one camera: B scored min_score - 1 against A and is marked,
\* C scored exactly min_score against A and is kept.
ThresholdBoundaryWitness ==
    /\ last.op = "kept"
    /\ last.score = MinScore
    /\ prev_frame = FrameAt(last.idx)
    /\ \E i \in Range(remove_indices) :
           /\ Readable(i)
           /\ Score(last.ref, FrameAt(i)) = MinScore - 1

\* The number of files of the camera at position k that the pass deleted.
DeletedOf(k) ==
    Cardinality({i \in Range(non_essential_data[k].indices) :
                     Image_files[i + 1] \in Range(deleted)})

\* C6: report fidelity.  After the removal pass a line has been printed for a
\* camera exactly when its removal list is not empty, and its count is the
\* number of files deleted for that camera.
ReportFidelity ==
    pc = "done" =>
        /\ \A k \in 1..Len(non_essential_data) :
               (\E j \in 1..Len(report) : report[j].id = non_essential_data[k].id)
                   <=> non_essential_data[k].indices # <<>>
        /\ \A j \in 1..Len(report) :
               \E k \in 1..Len(non_essential_data) :
                   /\ report[j].id = non_essential_data[k].id
                   /\ report[j].count = DeletedOf(k)

\* C7: no report on a fatal error.  In a run where a deletion has failed no
\* report line has been printed.
NoReportOnDeletionFailure == err = "OSError" => report = <<>>

\* C7 as amended: when a deletion fails, lines have been printed for the
\* cameras that precede the failing one in the iteration order, each with the
\* length of its removal list, and for no other camera.
ReportStopsAtFailingCamera ==
    err = "OSError" =>
        /\ Len(report) = ri - 1
        /\ \A j \in 1..Len(report) :
               report[j] = [id |-> non_essential_data[j].id,
                            count |-> Len(non_essential_data[j].indices)]

\* A deletion failed for a later camera, after a deletion of its own list and
\* after an earlier camera's line was printed.
ReportStopsAtFailingCameraWitness ==
    /\ err = "OSError"
    /\ \E j \in 1..Len(report) : report[j].count >= 1
    /\ count >= 1

---------------------------------------------------------------------------
\* The indices of a list whose files decode, in order.
ReadableOnly(indices) == SelectSeq(indices, Readable)

\* The scan of a camera's frames with the unreadable ones left out.
ScanReadableOnly(indices) ==
    ScanList(content, Image_files, ReadableOnly(indices), 1,
             [prev |-> Unbound, rem |-> <<>>, crashed |-> FALSE])

\* C8: unreadable isolation.  A frame that fails to load while a reference is
\* installed is marked non-essential, prev_frame is exactly what it was, no
\* exception ends the run there and the loop stands at the next frame.  A
\* camera whose first frame is readable therefore marks its unreadable frames
\* and decides its readable frames as the scan of the readable frames alone
\* does: [good1, corrupt, good2] decides good2 as [good1, good2] does.
UnreadableIsolation ==
    /\ (last.op = "unreadable" /\ last.ref.bound) =>
           /\ last.idx \in Range(RemovedOf(last.cam))
           /\ prev_frame = last.ref
           /\ err # "UnboundLocalError"
           /\ (pc = "scan" /\ ci = last.cam) =>
                  /\ fi > 1
                  /\ img_indices[fi - 1] = last.idx
    /\ \A k \in 1..Len(non_essential_data) :
           LET indices == camera_id_indices[k].indices
           IN  (indices # <<>> /\ Readable(indices[1])) =>
                   /\ ~ScanReadableOnly(indices).crashed
                   /\ Range(non_essential_data[k].indices)
                          = Range(ScanReadableOnly(indices).rem)
                              \cup {i \in Range(indices) : ~Readable(i)}

\* A camera [good1, corrupt, good2] has been scanned: corrupt is on its removal
\* list and good2 was scored against good1.
UnreadableIsolationWitness ==
    /\ pc = "scan"
    /\ ci <= Len(camera_id_indices)
    /\ Len(img_indices) = 3
    /\ fi = 4
    /\ Readable(img_indices[1])
    /\ ~Readable(img_indices[2])
    /\ Readable(img_indices[3])
    /\ img_indices[2] \in Range(remove_indices)
    /\ Scored
    /\ last.idx = img_indices[3]
    /\ last.ref.src = img_indices[1]

\* files lists the .png entries of a listing, each once, in ascending order.
SortedPngListOf(files, listing) ==
    /\ Range(files) = {f \in listing : EndsWith(f, Png)}
    /\ \A i \in 1..(Len(files) - 1) : StrLess(files[i], files[i + 1])

\* C9: decide, then delete.  While the decision loop runs the folder holds the
\* files it held at the start and Image_files is the sorted list of its .png
\* files; a file is deleted only after the loop has ended for every camera;
\* and each deleted file is the file at an index of a removal list in the
\* list the frames were judged on.
DecideThenDelete ==
    /\ pc \in {"start", "scan"} => (disk = DOMAIN content /\ deleted = <<>>)
    /\ pc = "scan" => SortedPngListOf(Image_files, disk)
    /\ err = "UnboundLocalError" => disk = DOMAIN content
    /\ deleted # <<>> =>
           /\ ci > Len(camera_id_indices)
           /\ Len(non_essential_data) = Len(camera_id_indices)
           /\ SortedPngListOf(Image_files, DOMAIN content)
           /\ \A d \in 1..Len(deleted) :
                  \E k \in 1..Len(non_essential_data) :
                      \E i \in Range(non_essential_data[k].indices) :
                          deleted[d] = Image_files[i + 1]

\* A frame marked during the scan of the first of two cameras has been deleted
\* in the removal pass.
DecideThenDeleteWitness ==
    /\ pc = "remove"
    /\ Len(camera_id_indices) >= 2
    /\ non_essential_data[1].indices # <<>>
    /\ deleted # <<>>
    /\ deleted[1] = Image_files[non_essential_data[1].indices[1] + 1]

---------------------------------------------------------------------------
\* The files of the removal lists from the camera at position k on, in the
\* order the removal pass takes them.
RECURSIVE RemovalOrderFrom(_)
RemovalOrderFrom(k) ==
    IF k > Len(non_essential_data) THEN <<>>
    ELSE [j \in 1..Len(non_essential_data[k].indices) |->
              Image_files[non_essential_data[k].indices[j] + 1]]
         \o RemovalOrderFrom(k + 1)

RemovalOrder == RemovalOrderFrom(1)

\* C11: non-transactional deletion failure.  When the k-th deletion of the
\* removal pass fails, the files of the first k-1 deletions are gone from the
\* folder and nothing else is, the failing deletion is the one the pass stands
\* at, and the run has ended with the error: no step follows, neither a retry
\* nor a later deletion nor a rollback.
NonTransactionalFailure ==
    err = "OSError" =>
        /\ pc = "error"
        /\ Len(deleted) < Len(RemovalOrder)
        /\ deleted = SubSeq(RemovalOrder, 1, Len(deleted))
        /\ RemovalOrder[Len(deleted) + 1] = RemovalFile
        /\ disk = (DOMAIN content) \ Range(deleted)
        /\ ~ENABLED Next

\* A deletion failed after an earlier one succeeded and with a later camera's
\* removals still to come.
NonTransactionalFailureWitness ==
    /\ err = "OSError"
    /\ deleted # <<>>
    /\ ri < Len(non_essential_data)
    /\ non_essential_data[Len(non_essential_data)].indices # <<>>
    /\ RemovalFile \in disk

---------------------------------------------------------------------------
\* The cameras whose scan has ended and whose index list holds one frame.
SingleFrameCameras ==
    {k \in 1..Len(non_essential_data) : Len(camera_id_indices[k].indices) = 1}

\* C12: single-frame sequence.  A camera whose sequence has exactly one frame
\* has an empty removal list after its scan, whether the file decodes or not.
SingleFrameRetained ==
    \A k \in SingleFrameCameras : non_essential_data[k].indices = <<>>

\* C12 as amended: a camera whose sequence has exactly one frame has an empty
\* removal list after its scan exactly when that frame is readable; a single
\* unreadable frame is the one entry of the list.
SingleFrameRetainedIffReadable ==
    \A k \in SingleFrameCameras :
        LET i == camera_id_indices[k].indices[1]
        IN  /\ Readable(i) => non_essential_data[k].indices = <<>>
            /\ ~Readable(i) => non_essential_data[k].indices = <<i>>
            /\ (last.cam = k /\ Readable(i)) =>
                   (last.op = "first" /\ prev_frame = FrameAt(i))

\* Two single-frame cameras have been scanned, the first with an unreadable
\* frame, the second, scanned with no reference of its own, with a readable one.
SingleFrameRetainedWitness ==
    /\ Len(non_essential_data) >= 2
    /\ {1, 2} \subseteq SingleFrameCameras
    /\ ~Readable(camera_id_indices[1].indices[1])
    /\ Readable(camera_id_indices[2].indices[1])
    /\ non_essential_data[2].indices = <<>>

---------------------------------------------------------------------------
\* The keys of the mapping get_camera_id_indices returned.
CameraKeys == {camera_id_indices[k].id : k \in 1..Len(camera_id_indices)}

\* The .png names that hold a separator.
SeparatedFiles == {f \in Range(Image_files) : HasSeparator(f)}

\* Everything before the first "-" of a name that holds one, otherwise
\* everything before the first "_".
DashFirstPrefix(f) ==
    IF Contains(f, "-") THEN SplitFirst(f, "-") ELSE SplitFirst(f, "_")

\* C13: camera identifiers.  The keys of the mapping are exactly the distinct
\* prefixes of the .png files, a prefix being everything before the first
\* occurrence of "-" or "_" in the name, also for names that hold both; there is
\* one key per distinct camera.
CameraIdentifiers ==
    Grouped =>
        /\ CameraKeys = {CameraPrefix(f) : f \in SeparatedFiles}
        /\ Len(camera_id_indices) = Cardinality({CameraPrefix(f) : f \in SeparatedFiles})

\* C13 as amended: the keys are exactly the distinct prefixes of the .png files
\* that hold a separator, a prefix being everything before the first "-" when
\* the name holds "-" and everything before the first "_" otherwise; there is
\* one key per distinct prefix.
CameraIdentifiersDashFirst ==
    Grouped =>
        /\ CameraKeys = {DashFirstPrefix(f) : f \in SeparatedFiles}
        /\ Len(camera_id_indices) = Cardinality(CameraKeys)

\* The grouping of a folder that holds a name with both separators, "_" first,
\* beside a name that holds "_" only.
CameraIdentifiersWitness ==
    /\ Grouped
    /\ \E f \in SeparatedFiles :
           /\ Contains(f, "-")
           /\ Contains(f, "_")
           /\ CameraPrefix(f) # DashFirstPrefix(f)
           /\ DashFirstPrefix(f) \in CameraKeys
    /\ \E f \in SeparatedFiles : ~Contains(f, "-")
    /\ Len(camera_id_indices) >= 2

---------------------------------------------------------------------------
\* C14: side-effect-free grouping failure.  When the folder path does not
\* exist the run ends with the not-found error and with nothing done: no
\* listing, no grouping, no frame loaded or scored, no removal list, no file
\* deleted, no line printed, and no step after the error.
SideEffectFreeNotFound ==
    /\ ~exists =>
           /\ pc \in {"start", "error"}
           /\ pc = "error" => err = "FileNotFoundError"
           /\ Image_files = <<>>
           /\ camera_id_indices = <<>>
           /\ last = NoStep
           /\ prev_frame = Unbound
           /\ non_essential_data = <<>>
           /\ deleted = <<>>
           /\ disk = DOMAIN content
           /\ report = <<>>
    /\ err = "FileNotFoundError" => (~exists /\ pc = "error" /\ ~ENABLED Next)

\* The run on a missing folder has ended with the not-found error.
SideEffectFreeNotFoundWitness ==
    /\ ~exists
    /\ pc = "error"
    /\ err = "FileNotFoundError"

---------------------------------------------------------------------------
\* The places of the removal lists that hold the index i.
RemovalPlacesOf(i) ==
    { p \in UNION { {k} \X (1..Len(non_essential_data[k].indices)) :
                      k \in 1..Len(non_essential_data) } :
        non_essential_data[p[1]].indices[p[2]] = i }

\* C15: no double deletion.  Every file index is in at most one camera's
\* removal list and at most once in it, so the removal pass never comes to
\* delete a file that it has already deleted.
NoDoubleDeletion ==
    /\ Decided => \A i \in AllIndices : Cardinality(RemovalPlacesOf(i)) <= 1
    /\ AtRemoval => RemovalFile \notin Range(deleted)

\* The folder a run leaves behind: the files still on disk, with their content.
ResultingFolder == [f \in disk |-> content[f]]

\* The removal lists remove_duplicates computes when called again on it.
SecondRun == DecisionLoop(ResultingFolder)

\* C16: idempotence of a successful run.  After remove_duplicates has returned
\* normally, the decision loop of a second call on the resulting folder puts no
\* index on any camera's removal list (so the second call deletes no file), for
\* every folder content, prefix-sharing cameras included.
Idempotent ==
    pc = "done" =>
        \A k \in 1..Len(SecondRun.data) : SecondRun.data[k].indices = <<>>

====
